---- MODULE Spec2Model ----
(***************************************************************************)
(* GameMaster (src/src/game_master.rs): the actix actor that pairs Matchup *)
(* requests into OngoingGame sessions and routes Jump requests to them.    *)
(*                                                                         *)
(* One action per message handler.  A handler runs to completion or        *)
(* panics; a panic (a failed do_send(..).unwrap(), unimplemented!(), or    *)
(* expect) leaves the state as it was at the panicking statement and stops *)
(* the actor.  Every do_send call of the last handler is recorded in       *)
(* `sent`, with the result do_send returned.                               *)
(*                                                                         *)
(* The rule engine crate::checkers::CheckersGame is not part of the file;  *)
(* it is modelled from the interface the specification gives for it.       *)
(***************************************************************************)
EXTENDS Integers, Sequences, FiniteSets, TLC

\* ------------------------------------------------------------- bounds --
MaxMatchups == 4      \* Matchup requests handled in one run
MaxMoves    == 2      \* moves the engine accepts in one run, all sessions
MaxSubmitted == 4     \* messages sent to the mailbox in one run
MaxMailbox  == 2      \* messages waiting in the mailbox at one time

PlayerIDs == {1, 2}   \* the players that send requests
Positions == {1, 2}   \* the squares a Jump names
Teams     == {"Light", "Dark"}

\* Option<T>: None is the empty sequence, Some(x) the one-element sequence.
None      == <<>>
Some(x)   == <<x>>
IsSome(o) == Len(o) = 1
Unwrap(o) == o[1]

VARIABLES
    enqueued,          \* Matchmaker.enqueued : Option<Matchup>
    last_match_id,     \* Matchmaker.last_match_id : GameID
    games,             \* GameMaster.games : GameID -> OngoingGame
    players_in_games,  \* GameMaster.players_in_games : PlayerID -> GameID
    status,            \* "running", or "panicked" once a handler panicked
    sent,              \* do_send calls of the last handler, in order
    last,              \* the last request handled and what it met
    pairings,          \* history: every Some(..) Matchmaker::matchup returned
    nmatchups,         \* history: Matchup requests handled so far
    snapshots,         \* history: per pairing, the GameState do_send calls
                       \* made for its session, in order
    announced,         \* history: per player, the game_id of the last
                       \* GameFound whose do_send returned Ok
    mailbox,           \* the actor's mailbox: messages sent to GameMaster
                       \* and not yet handled, oldest first
    nsubmitted,        \* history: messages put into the mailbox so far
    handled            \* history: the last message taken from the mailbox

vars == <<enqueued, last_match_id, games, players_in_games, status, sent,
          last, pairings, nmatchups, snapshots, announced, mailbox,
          nsubmitted, handled>>

\* ------------------------------------------------- rule engine (spec) --
\* CheckersGame::new(): a fresh game; the table is abstracted to the number
\* of moves accepted so far.  Light opens.
CheckersGame_new ==
    [table |-> 0, team_on_turn |-> "Light", winner |-> None]

Other(t) == IF t = "Light" THEN "Dark" ELSE "Light"

\* What CheckersGame::jump may answer: Bad, or Good with the captured piece,
\* the crowned flag and the winner the move produces (if any).  Two kinds of
\* accepted move stand for all: a plain one, and one that captures the piece
\* on square 1 and is crowned.
JumpAnswers ==
    {[kind |-> "Bad", captured_piece |-> None, crowned |-> FALSE,
      winner |-> None]}
    \cup
    {[kind |-> "Good", captured_piece |-> c[1], crowned |-> c[2], winner |-> w]
       : c \in {<<None, FALSE>>, <<Some(1), TRUE>>},
         w \in {None} \cup {Some(t) : t \in Teams}}

\* CheckersGame::jump(from, to) answering `ans`: an accepted move changes
\* the table, passes the turn and may set the winner; a refused one changes
\* nothing.  A winner once reported stays.
CheckersGame_jump(g, ans) ==
    IF ans.kind = "Good"
    THEN [table        |-> g.table + 1,
          team_on_turn |-> Other(g.team_on_turn),
          winner       |-> IF IsSome(g.winner) THEN g.winner ELSE ans.winner]
    ELSE g

\* --------------------------------------------------------- Matchmaker --
\* matchup reading the slot without take(): the pending request stays.
matchup_keeps_enqueued(enq, lmid, m, coin) ==
    IF IsSome(enq)
    THEN [enqueued      |-> enq,
          last_match_id |-> lmid + 1,
          result        |-> Some([light   |-> IF coin THEN Unwrap(enq) ELSE m,
                                  dark    |-> IF coin THEN m ELSE Unwrap(enq),
                                  game_id |-> (lmid + 1) - 1])]
    ELSE [enqueued      |-> Some(m),
          last_match_id |-> lmid,
          result        |-> None]

\* matchup without `self.last_match_id.0 += 1`.
matchup_no_increment(enq, lmid, m, coin) ==
    IF IsSome(enq)
    THEN [enqueued      |-> None,
          last_match_id |-> lmid,
          result        |-> Some([light   |-> IF coin THEN Unwrap(enq) ELSE m,
                                  dark    |-> IF coin THEN m ELSE Unwrap(enq),
                                  game_id |-> lmid])]
    ELSE [enqueued      |-> Some(m),
          last_match_id |-> lmid,
          result        |-> None]

\* matchup that swaps on the parity of the match id instead of on the coin.
matchup_by_parity(enq, lmid, m, coin) ==
    IF IsSome(enq)
    THEN [enqueued      |-> None,
          last_match_id |-> lmid + 1,
          result        |-> Some([light   |-> IF lmid % 2 = 1
                                              THEN Unwrap(enq) ELSE m,
                                  dark    |-> IF lmid % 2 = 1
                                              THEN m ELSE Unwrap(enq),
                                  game_id |-> (lmid + 1) - 1])]
    ELSE [enqueued      |-> Some(m),
          last_match_id |-> lmid,
          result        |-> None]

\* Matchmaker::matchup on slot `enq` and counter `lmid` with request m and
\* coin rand::random(): the new slot, the new counter and the return value.
matchup(enq, lmid, m, coin) ==
    IF IsSome(enq)
    THEN [enqueued      |-> None,
          last_match_id |-> lmid + 1,
          result        |-> Some([light   |-> IF coin THEN Unwrap(enq) ELSE m,
                                  dark    |-> IF coin THEN m ELSE Unwrap(enq),
                                  game_id |-> (lmid + 1) - 1])]
    ELSE [enqueued      |-> Some(m),
          last_match_id |-> lmid,
          result        |-> None]

\* -------------------------------------------------------- OngoingGame --
team(og, player_id) ==
    IF og.light_player.id = player_id THEN Some("Light")
    ELSE IF og.dark_player.id = player_id THEN Some("Dark")
    ELSE None

is_on_turn(og, player_id) ==
    IF IsSome(team(og, player_id))
    THEN Unwrap(team(og, player_id)) = og.game.team_on_turn
    ELSE FALSE

\* bad_jump_recipient with the two arms exchanged: the opponent's recipient.
bad_jump_recipient_of_opponent(og, player_id) ==
    IF og.light_player.id = player_id THEN Some(og.dark_player.id)
    ELSE IF og.dark_player.id = player_id THEN Some(og.light_player.id)
    ELSE None

\* The player whose bad_jump_recipient is chosen (recipients are named by
\* the player that supplied them).
bad_jump_recipient(og, player_id) ==
    IF og.light_player.id = player_id THEN Some(og.light_player.id)
    ELSE IF og.dark_player.id = player_id THEN Some(og.dark_player.id)
    ELSE None

Send(p, m) == [to |-> p, msg |-> m, ok |-> TRUE]

\* The do_send calls of send_game_state, in order.
send_game_state(og) ==
    LET msg == [type |-> "GameState", table |-> og.game.table,
                team_on_turn |-> og.game.team_on_turn,
                winner |-> og.game.winner]
    IN  <<Send(og.light_player.id, msg), Send(og.dark_player.id, msg)>>

\* The do_send calls of send_updates, in order.
send_updates(og, from, to, captured_piece, crowned) ==
    LET msg == [type |-> "GameUpdate", from |-> from, to |-> to,
                crowned |-> crowned, captured_piece |-> captured_piece,
                team_on_turn |-> og.game.team_on_turn,
                winner |-> og.game.winner]
    IN  <<Send(og.light_player.id, msg), Send(og.dark_player.id, msg)>>

\* The do_send calls of send_bad_jump.
send_bad_jump(og, player_id) ==
    IF IsSome(bad_jump_recipient(og, player_id))
    THEN <<Send(Unwrap(bad_jump_recipient(og, player_id)),
                [type |-> "BadJump"])>>
    ELSE <<>>

\* jump without the is_on_turn test: the engine is asked in every case.
jump_no_turn_check(og, player_id, from, to, ans) ==
    LET og2 == [og EXCEPT !.game = CheckersGame_jump(og.game, ans)]
    IN  [og     |-> og2,
         called |-> TRUE,
         sends  |-> IF ans.kind = "Good"
                    THEN send_updates(og2, from, to,
                                      ans.captured_piece, ans.crowned)
                    ELSE send_bad_jump(og2, player_id)]

\* jump that also exchanges the two players of the session on an accepted
\* move.
jump_swaps_players(og, player_id, from, to, ans) ==
    IF is_on_turn(og, player_id)
    THEN LET og2 == IF ans.kind = "Good"
                    THEN [game |-> CheckersGame_jump(og.game, ans),
                          light_player |-> og.dark_player,
                          dark_player |-> og.light_player]
                    ELSE og
         IN  [og     |-> og2,
              called |-> TRUE,
              sends  |-> IF ans.kind = "Good"
                         THEN send_updates(og2, from, to,
                                           ans.captured_piece, ans.crowned)
                         ELSE send_bad_jump(og2, player_id)]
    ELSE [og |-> og, called |-> FALSE, sends |-> send_bad_jump(og, player_id)]

\* jump that moves on a copy of the game: the session keeps the state from
\* before the move.
jump_on_copy(og, player_id, from, to, ans) ==
    IF is_on_turn(og, player_id)
    THEN LET og2 == [og EXCEPT !.game = CheckersGame_jump(og.game, ans)]
         IN  [og     |-> og,
              called |-> TRUE,
              sends  |-> IF ans.kind = "Good"
                         THEN send_updates(og2, from, to,
                                           ans.captured_piece, ans.crowned)
                         ELSE send_bad_jump(og2, player_id)]
    ELSE [og |-> og, called |-> FALSE, sends |-> send_bad_jump(og, player_id)]

\* OngoingGame::jump, the engine answering `ans` if it is asked: the session
\* afterwards, the do_send calls made, and whether the engine was called.
jump(og, player_id, from, to, ans) ==
    IF is_on_turn(og, player_id)
    THEN LET og2 == [og EXCEPT !.game = CheckersGame_jump(og.game, ans)]
         IN  [og     |-> og2,
              called |-> TRUE,
              sends  |-> IF ans.kind = "Good"
                         THEN send_updates(og2, from, to,
                                           ans.captured_piece, ans.crowned)
                         ELSE send_bad_jump(og2, player_id)]
    ELSE [og |-> og, called |-> FALSE, sends |-> send_bad_jump(og, player_id)]

\* ---------------------------------------------------------- delivery --
\* do_send(..).unwrap() over the calls `sends`: fail = 0 when every call
\* returns Ok, fail = k when the k-th returns Err and unwrap panics there.
Attempted(sends, fail) ==
    IF fail = 0 THEN sends
    ELSE [i \in 1..fail |-> [sends[i] EXCEPT !.ok = (i # fail)]]

\* The GameState calls among the calls `calls`.
GameStateCalls(calls) == SelectSeq(calls, LAMBDA s : s.msg.type = "GameState")

\* `ann` after the calls `calls`: a GameFound that was accepted replaces what
\* its recipient was told before.
RECURSIVE Announce(_, _)
Announce(ann, calls) ==
    IF calls = <<>> THEN ann
    ELSE LET c == Head(calls)
         IN  Announce(IF c.msg.type = "GameFound" /\ c.ok
                      THEN [ann EXCEPT ![c.to] = Some(c.msg.game_id)]
                      ELSE ann,
                      Tail(calls))

NoLast == [kind |-> "None", player_id |-> 0, from |-> 0, to |-> 0,
           game_id |-> None, paired |-> FALSE, on_turn |-> FALSE,
           called |-> FALSE, ans |-> None, pre |-> None,
           fail |-> 0]

Init ==
    /\ enqueued = None
    /\ last_match_id = 0
    /\ games = <<>>
    /\ players_in_games = <<>>
    /\ status = "running"
    /\ sent = <<>>
    /\ last = NoLast
    /\ pairings = <<>>
    /\ nmatchups = 0
    /\ snapshots = <<>>
    /\ announced = [p \in PlayerIDs |-> None]
    /\ mailbox = <<>>
    /\ nsubmitted = 0
    /\ handled = None

\* Insertion that keeps the value of a key already present (the behaviour
\* of entry(k).or_insert(v)).
Insert_or_keep(f, k, v) ==
    [x \in DOMAIN f \cup {k} |-> IF x \in DOMAIN f THEN f[x] ELSE v]

\* Map insertion: HashMap::insert(k, v).
Insert(f, k, v) == [x \in DOMAIN f \cup {k} |-> IF x = k THEN v ELSE f[x]]

\* insert_players with the matchmaker's counter (already incremented) in
\* place of game_id.
insert_players_under_counter(pim, light_id, dark_id, game_id) ==
    Insert(Insert(pim, light_id, game_id + 1), dark_id, game_id + 1)

\* The two players_in_games.insert calls of Handler<Matchup>::handle.
insert_players(pim, light_id, dark_id, game_id) ==
    Insert(Insert(pim, light_id, game_id), dark_id, game_id)

\* Handler<Matchup>::handle for a request of player p.
HandleMatchup(p, coin, fail) ==
    /\ status = "running"
    /\ nmatchups < MaxMatchups
    /\ LET m == [player_id |-> p, arrival |-> nmatchups + 1]
           r == matchup(enqueued, last_match_id, m, coin)
       IN  /\ enqueued' = r.enqueued
           /\ last_match_id' = r.last_match_id
           /\ nmatchups' = nmatchups + 1
           /\ IF IsSome(r.result)
              THEN LET light   == Unwrap(r.result).light
                       dark    == Unwrap(r.result).dark
                       game_id == Unwrap(r.result).game_id
                       game    == [game |-> CheckersGame_new,
                                   light_player |-> [id |-> light.player_id],
                                   dark_player  |-> [id |-> dark.player_id]]
                       found   == [type |-> "GameFound", game_id |-> game_id,
                                   light_player |-> light.player_id,
                                   dark_player |-> dark.player_id]
                       sends   == send_game_state(game) \o
                                  <<Send(light.player_id, found),
                                    Send(dark.player_id, found)>>
                       \* the registry insertions follow the two GameState sends
                       inserted == fail = 0 \/ fail > 2
                   IN  /\ fail \in 0..4
                       /\ pairings' = Append(pairings, Unwrap(r.result))
                       /\ sent' = Attempted(sends, fail)
                       /\ snapshots' =
                            Append(snapshots,
                                   GameStateCalls(Attempted(sends, fail)))
                       /\ announced' =
                            Announce(announced, Attempted(sends, fail))
                       /\ games' = IF inserted
                                   THEN Insert(games, game_id, game)
                                   ELSE games
                       /\ players_in_games' =
                            IF inserted
                            THEN insert_players(players_in_games,
                                                light.player_id,
                                                dark.player_id, game_id)
                            ELSE players_in_games
                       /\ status' = IF fail = 0 THEN "running" ELSE "panicked"
                       /\ last' = [NoLast EXCEPT !.kind = "Matchup",
                                     !.player_id = p, !.paired = TRUE,
                                     !.game_id = Some(game_id), !.fail = fail]
              ELSE /\ fail = 0 /\ coin = FALSE
                   /\ pairings' = pairings
                   /\ sent' = <<>>
                   /\ UNCHANGED <<games, players_in_games, status,
                                  snapshots, announced>>
                   /\ last' = [NoLast EXCEPT !.kind = "Matchup",
                                 !.player_id = p]

\* Moves accepted so far, over all sessions.
RECURSIVE SumTables(_)
SumTables(G) ==
    IF G = {} THEN 0
    ELSE LET g == CHOOSE x \in G : TRUE
         IN  games[g].game.table + SumTables(G \ {g})

TotalMoves == SumTables(DOMAIN games)

\* Handler<Jump>::handle for Jump {player_id: p, from, to}.
HandleJump(p, from, to, ans, fail) ==
    /\ status = "running"
    /\ to # from
    /\ UNCHANGED <<enqueued, last_match_id, players_in_games, pairings,
                   nmatchups>>
    /\ IF p \in DOMAIN players_in_games
       THEN LET game_id == players_in_games[p] IN
            IF game_id \in DOMAIN games
            THEN LET og == games[game_id]
                     r  == jump(og, p, from, to, ans)
                 IN  /\ IF r.called
                        THEN ans.kind = "Good" => TotalMoves < MaxMoves
                        ELSE ans.kind = "Bad"
                     /\ fail \in 0..Len(r.sends)
                     /\ games' = [games EXCEPT ![game_id] = r.og]
                     /\ sent' = Attempted(r.sends, fail)
                     /\ snapshots' =
                          [snapshots EXCEPT ![game_id + 1] =
                             @ \o GameStateCalls(Attempted(r.sends, fail))]
                     /\ announced' =
                          Announce(announced, Attempted(r.sends, fail))
                     /\ status' = IF fail = 0 THEN "running" ELSE "panicked"
                     /\ last' = [NoLast EXCEPT !.kind = "Jump",
                                   !.player_id = p, !.from = from, !.to = to,
                                   !.game_id = Some(game_id),
                                   !.on_turn = is_on_turn(og, p),
                                   !.called = r.called,
                                   !.ans = Some(ans),
                                   !.pre = Some(og),
                                   !.fail = fail]
            ELSE \* expect("player was in a non-existent game")
                 /\ fail = 0 /\ ans.kind = "Bad"
                 /\ status' = "panicked"
                 /\ sent' = <<>>
                 /\ games' = games
                 /\ UNCHANGED <<snapshots, announced>>
                 /\ last' = [NoLast EXCEPT !.kind = "Jump", !.player_id = p,
                               !.from = from, !.to = to,
                               !.game_id = Some(game_id)]
       ELSE \* unimplemented!()
            /\ fail = 0 /\ ans.kind = "Bad"
            /\ status' = "panicked"
            /\ sent' = <<>>
            /\ games' = games
            /\ UNCHANGED <<snapshots, announced>>
            /\ last' = [NoLast EXCEPT !.kind = "Jump", !.player_id = p,
                          !.from = from, !.to = to]

\* A Matchup arrives at an idle GameMaster and is handled.
RequestMatchup(p, coin, fail) ==
    /\ HandleMatchup(p, coin, fail)
    /\ UNCHANGED <<mailbox, nsubmitted, handled>>

\* A Jump arrives at an idle GameMaster and is handled.
RequestJump(p, from, to, ans, fail) ==
    /\ HandleJump(p, from, to, ans, fail)
    /\ UNCHANGED <<mailbox, nsubmitted, handled>>

Next ==
    \/ \E p \in PlayerIDs, coin \in BOOLEAN, fail \in 0..4 :
          RequestMatchup(p, coin, fail)
    \/ \E p \in PlayerIDs, from \in Positions, to \in Positions,
          ans \in JumpAnswers, fail \in 0..2 :
          RequestJump(p, from, to, ans, fail)

Spec == Init /\ [][Next]_vars

\* ------------------------------------------------------------ mailbox --
\* The same actor with requests that wait: a client's send puts the message
\* at the end of the mailbox while GameMaster may be busy or behind, and the
\* actor takes the oldest message and runs its handler to the end (handle
\* takes &mut self and returns only when done) before it takes the next.
\* `seq` is the message's arrival number, `ahead` the messages that were
\* waiting in front of it when it arrived.
Message(kind, p, from, to) ==
    [kind |-> kind, player_id |-> p, from |-> from, to |-> to,
     seq |-> nsubmitted + 1, ahead |-> Len(mailbox)]

Submit(msg) ==
    /\ status = "running"
    /\ nsubmitted < MaxSubmitted
    /\ Len(mailbox) < MaxMailbox
    /\ mailbox' = Append(mailbox, msg)
    /\ nsubmitted' = nsubmitted + 1
    /\ UNCHANGED <<enqueued, last_match_id, games, players_in_games, status,
                   sent, last, pairings, nmatchups, snapshots, announced,
                   handled>>

SubmitMatchup(p) ==
    /\ p \in PlayerIDs
    /\ Submit(Message("Matchup", p, 0, 0))

SubmitJump(p, from, to) ==
    /\ to # from
    /\ Submit(Message("Jump", p, from, to))

DeliverMatchup(coin, fail) ==
    /\ mailbox # <<>>
    /\ Head(mailbox).kind = "Matchup"
    /\ HandleMatchup(Head(mailbox).player_id, coin, fail)
    /\ mailbox' = Tail(mailbox)
    /\ handled' = Some(Head(mailbox))
    /\ nsubmitted' = nsubmitted

DeliverJump(ans, fail) ==
    /\ mailbox # <<>>
    /\ Head(mailbox).kind = "Jump"
    /\ HandleJump(Head(mailbox).player_id, Head(mailbox).from,
                  Head(mailbox).to, ans, fail)
    /\ mailbox' = Tail(mailbox)
    /\ handled' = Some(Head(mailbox))
    /\ nsubmitted' = nsubmitted

NextMailbox ==
    \/ \E p \in PlayerIDs : SubmitMatchup(p)
    \/ \E p \in PlayerIDs, from \in Positions, to \in Positions :
          SubmitJump(p, from, to)
    \/ \E coin \in BOOLEAN, fail \in 0..4 : DeliverMatchup(coin, fail)
    \/ \E ans \in JumpAnswers, fail \in 0..2 : DeliverJump(ans, fail)

SpecMailbox == Init /\ [][NextMailbox]_vars

TypeOK ==
    /\ status \in {"running", "panicked"}
    /\ last_match_id \in Nat
    /\ Len(enqueued) <= 1
    /\ DOMAIN players_in_games \subseteq PlayerIDs

\* ------------------------------------------------------------ helpers --
Participants(og) == {og.light_player.id, og.dark_player.id}

LastWasJump == last.kind = "Jump" /\ IsSome(last.pre)

\* The session the last Jump was routed to, before and after the handler.
PreGame  == Unwrap(last.pre)
PostGame == games[Unwrap(last.game_id)]

\* -------------------------------------------------------------- C1 --
\* C1: the (2j-1)-th and (2j)-th Matchup requests form the j-th pairing, one
\* of them as light and the other as dark, and the session registered for
\* the pairing holds their players on those sides; an odd-numbered request
\* only fills the pending slot, creating no session and sending nothing; an
\* even-numbered request leaves the slot empty.
C1_PairedInArrivalOrder ==
    /\ Len(pairings) = nmatchups \div 2
    /\ \A j \in 1..Len(pairings) :
          /\ {pairings[j].light.arrival, pairings[j].dark.arrival}
                = {2 * j - 1, 2 * j}
          /\ pairings[j].light.arrival # pairings[j].dark.arrival
          /\ pairings[j].game_id \in DOMAIN games =>
                /\ games[pairings[j].game_id].light_player.id
                      = pairings[j].light.player_id
                /\ games[pairings[j].game_id].dark_player.id
                      = pairings[j].dark.player_id
    /\ DOMAIN games \subseteq {pairings[j].game_id : j \in 1..Len(pairings)}
    /\ IF nmatchups % 2 = 1
       THEN /\ IsSome(enqueued)
            /\ Unwrap(enqueued).arrival = nmatchups
            /\ last.kind = "Matchup" =>
                  ~last.paired /\ sent = <<>> /\ status = "running"
       ELSE /\ enqueued = None
            /\ last.kind = "Matchup" => last.paired

\* Two pairings were made, the first with the new arrival as light and the
\* second with the pending request as light.
C1_Witness ==
    /\ Len(pairings) = 2
    /\ DOMAIN games = {0, 1}
    /\ pairings[1].light.arrival = 2
    /\ pairings[2].light.arrival = 3

\* -------------------------------------------------------------- C2 --
\* C2: in every registered session the light player and the dark player are
\* different PlayerIDs.
C2_NeverPairedWithSelf ==
    \A g \in DOMAIN games :
        games[g].light_player.id # games[g].dark_player.id

\* -------------------------------------------------------------- C3 --
\* C3: every PlayerID is a participant of at most one registered session
\* that has no winner yet (stated for the runs in which no player was paired
\* with themself, so that a violation owes nothing to C2).
C3_AtMostOneActiveSession ==
    C2_NeverPairedWithSelf =>
    \A p \in PlayerIDs :
        Cardinality({g \in DOMAIN games :
                        /\ games[g].game.winner = None
                        /\ p \in Participants(games[g])}) <= 1

\* -------------------------------------------------------------- C4 --
\* C4: players_in_games maps p to g if and only if p is the light_player or
\* the dark_player of games[g] (stated for the runs in which no player was
\* paired with themself).
C4_RegistryIff ==
    C2_NeverPairedWithSelf =>
    \A p \in PlayerIDs :
        /\ p \in DOMAIN players_in_games =>
              players_in_games[p] \in DOMAIN games
        /\ \A g \in DOMAIN games :
              (p \in DOMAIN players_in_games /\ players_in_games[p] = g)
                <=> p \in Participants(games[g])

\* -------------------------------------------------------------- C5 --
\* C5: a Jump from a participant whose side is not the side on turn in the
\* session it is routed to makes no call to the engine, leaves the session's
\* engine state as it was, and makes exactly one do_send: a BadJump to the
\* requesting player (so no GameUpdate to anyone).
C5_OffTurnJumpRejected ==
    (/\ LastWasJump
     /\ IsSome(team(PreGame, last.player_id))
     /\ Unwrap(team(PreGame, last.player_id)) # PreGame.game.team_on_turn)
    => /\ ~last.called
       /\ PostGame.game = PreGame.game
       /\ Len(sent) = 1
       /\ sent[1].to = last.player_id
       /\ sent[1].msg.type = "BadJump"

\* The dark player asked to move in a session where a move was already
\* made and light is on turn again, and its BadJump was delivered.
C5_Witness ==
    /\ LastWasJump
    /\ PreGame.dark_player.id = last.player_id
    /\ PreGame.light_player.id # last.player_id
    /\ PreGame.game.team_on_turn = "Light"
    /\ PreGame.game.table = 2
    /\ sent = <<Send(last.player_id, [type |-> "BadJump"])>>
    /\ status = "running"

\* -------------------------------------------------------------- C6 --
\* C6: when the engine accepts the move of a Jump, exactly two do_send calls
\* are made, one to the light and one to the dark player of the session,
\* both with the same GameUpdate and none with a BadJump; the update carries
\* the request's from and to, the engine's captured_piece and crowned, the
\* side on turn after the move, and the winner the engine reports after it
\* (stated for sessions of two different players).
C6_AcceptedMoveBroadcast ==
    (/\ LastWasJump /\ last.called /\ Unwrap(last.ans).kind = "Good"
     /\ PreGame.light_player.id # PreGame.dark_player.id)
    => /\ Len(sent) = 2
       /\ sent[1].to = PostGame.light_player.id
       /\ sent[2].to = PostGame.dark_player.id
       /\ sent[1].msg = sent[2].msg
       /\ sent[1].msg =
            [type |-> "GameUpdate", from |-> last.from, to |-> last.to,
             crowned |-> Unwrap(last.ans).crowned,
             captured_piece |-> Unwrap(last.ans).captured_piece,
             team_on_turn |-> PostGame.game.team_on_turn,
             winner |-> PostGame.game.winner]

\* -------------------------------------------------------------- C7 --
\* C7: a Jump routed to a session whose engine already reports a winner is
\* answered with one BadJump to the requesting player and leaves the
\* session's engine state as it was.
C7_FinishedIsFinal ==
    (LastWasJump /\ IsSome(PreGame.game.winner))
    => /\ PostGame.game = PreGame.game
       /\ Len(sent) = 1
       /\ sent[1].to = last.player_id
       /\ sent[1].msg.type = "BadJump"

\* -------------------------------------------------------------- C8 --
\* C8: a Jump from a player with no entry in players_in_games does not stop
\* GameMaster.
C8_UnknownPlayerNotFatal ==
    (last.kind = "Jump" /\ last.game_id = None) => status = "running"

\* -------------------------------------------------------------- C9 --
\* C9: when a do_send of a handler fails, the handler still makes all its
\* do_send calls and performs its registry insertions, and GameMaster keeps
\* running.
C9_DeliveryFailureTolerated ==
    last.fail > 0
    => /\ status = "running"
       /\ last.kind = "Matchup" =>
             /\ Len(sent) = 4
             /\ Unwrap(last.game_id) \in DOMAIN games
       /\ (last.kind = "Jump" /\ Unwrap(last.ans).kind = "Good") =>
             Len(sent) = 2

\* ------------------------------------------------------------- C10 --
\* C10: the j-th pairing is given GameID j-1, so the ids strictly increase
\* and no two pairings share one; every registered session sits under the id
\* of a pairing made; and a step never removes or replaces the participants
\* of a registered session, a Matchup step leaving every registered session
\* exactly as it was.
C10_IdsInv ==
    /\ \A j \in 1..Len(pairings) : pairings[j].game_id = j - 1
    /\ DOMAIN games \subseteq 0..(Len(pairings) - 1)
    /\ last_match_id = Len(pairings)

C10_NoOverwrite ==
    \A g \in DOMAIN games :
        /\ g \in DOMAIN games'
        /\ games'[g].light_player = games[g].light_player
        /\ games'[g].dark_player = games[g].dark_player
        /\ nmatchups' # nmatchups => games'[g] = games[g]

C10_FreshIncreasingIds == []C10_IdsInv /\ [][C10_NoOverwrite]_vars

\* The second pairing was registered under id 1 after a move was made in
\* the session registered under id 0.
C10_Witness ==
    /\ DOMAIN games = {0, 1}
    /\ games[0].game.table > 0
    /\ last.kind = "Matchup"
    /\ last.game_id = Some(1)

\* ------------------------------------------------------------- C11 --
\* C11: a Matchup that completes a pairing (of two different players) makes
\* exactly two GameFound do_send calls, one to each paired player, both with
\* the same message, whose game_id is the id the session is registered
\* under and whose light_player and dark_player are the PlayerIDs on those
\* sides of that session; a Matchup that only fills the slot makes none.
GameFoundCalls == SelectSeq(sent, LAMBDA s : s.msg.type = "GameFound")

C11_GameFoundToBoth ==
    last.kind = "Matchup" =>
      IF last.paired
      THEN LET pr == pairings[Len(pairings)] IN
           pr.light.player_id # pr.dark.player_id =>
             /\ Len(GameFoundCalls) = 2
             /\ GameFoundCalls[1].to = pr.light.player_id
             /\ GameFoundCalls[2].to = pr.dark.player_id
             /\ GameFoundCalls[1].msg = GameFoundCalls[2].msg
             /\ pr.game_id \in DOMAIN games
             /\ GameFoundCalls[1].msg =
                  [type |-> "GameFound", game_id |-> pr.game_id,
                   light_player |-> games[pr.game_id].light_player.id,
                   dark_player |-> games[pr.game_id].dark_player.id]
      ELSE Len(GameFoundCalls) = 0

\* ------------------------------------------------------------- C14 --
\* C14: a Jump from the participant on turn that the engine refuses makes
\* exactly one do_send: a BadJump to the requesting player; no GameUpdate is
\* sent and nothing is sent to the opponent.
C14_RefusedMoveRejected ==
    (LastWasJump /\ last.called /\ Unwrap(last.ans).kind = "Bad")
    => /\ Len(sent) = 1
       /\ sent[1].to = last.player_id
       /\ sent[1].msg = [type |-> "BadJump"]
       /\ PostGame = PreGame

\* The dark player of a session of two players, on turn after light's move,
\* had its move refused by the engine and was sent the BadJump.
C14_Witness ==
    /\ LastWasJump /\ last.called
    /\ Unwrap(last.ans).kind = "Bad"
    /\ PreGame.dark_player.id = last.player_id
    /\ PreGame.light_player.id # last.player_id
    /\ PreGame.game.table = 1
    /\ sent = <<Send(last.player_id, [type |-> "BadJump"])>>
    /\ status = "running"

\* ------------------------------------------------------------- C15 --
\* C15: every key of players_in_games is mapped to a registered session
\* that has no winner and of which it is a participant (stated for the runs
\* in which no player was paired with themself).
C15_RegistryOnlyActive ==
    C2_NeverPairedWithSelf =>
    \A p \in DOMAIN players_in_games :
        /\ players_in_games[p] \in DOMAIN games
        /\ p \in Participants(games[players_in_games[p]])
        /\ games[players_in_games[p]].game.winner = None

\* ------------------------------------------------------------- C17 --
\* C17: whenever players_in_games maps p to g, games contains g and p is the
\* light_player or the dark_player of games[g]; so a Jump that finds an
\* entry for its player finds the session (the expect does not fire) and
\* team() of that session answers Some for the player.
C17_RegistryPointsAtOwnSession ==
    /\ \A p \in DOMAIN players_in_games :
          /\ players_in_games[p] \in DOMAIN games
          /\ p \in Participants(games[players_in_games[p]])
    /\ (last.kind = "Jump" /\ IsSome(last.game_id)) =>
          /\ IsSome(last.pre)
          /\ IsSome(team(PreGame, last.player_id))

\* A Jump was routed to the second session of a player that was paired
\* twice.
C17_Witness ==
    /\ LastWasJump
    /\ DOMAIN games = {0, 1}
    /\ last.player_id \in Participants(games[0])
    /\ last.game_id = Some(1)
    /\ status = "running"

\* ------------------------------------------------------------- C18 --
\* C18: a Jump step leaves the pending slot, the match-id counter, the key
\* set of games, players_in_games and the participants of every session as
\* they were, and changes the engine state of no session other than the one
\* the requesting player is mapped to; a Matchup step leaves every session
\* already registered exactly as it was.
C18_Frame ==
    IF nmatchups' = nmatchups
    THEN /\ enqueued' = enqueued
         /\ last_match_id' = last_match_id
         /\ players_in_games' = players_in_games
         /\ DOMAIN games' = DOMAIN games
         /\ \A g \in DOMAIN games :
               /\ games'[g].light_player = games[g].light_player
               /\ games'[g].dark_player = games[g].dark_player
               /\ games'[g] # games[g] =>
                     /\ last'.player_id \in DOMAIN players_in_games
                     /\ g = players_in_games[last'.player_id]
    ELSE \A g \in DOMAIN games :
               g \in DOMAIN games' /\ games'[g] = games[g]

C18_HandlersFrame == [][C18_Frame]_vars

\* Two sessions are registered, a move was accepted in each, the last one
\* in the second session.
C18_Witness ==
    /\ LastWasJump /\ last.called
    /\ Unwrap(last.ans).kind = "Good"
    /\ DOMAIN games = {0, 1}
    /\ last.game_id = Some(1)
    /\ games[0].game.table = 1
    /\ games[1].game.table = 1

\* ------------------------------------------------------------- C12 --
\* C12: for every session created (every pairing made), over the whole run
\* exactly two GameState do_send calls are made, one to its light and one to
\* its dark player, both with the same message, which carries the engine's
\* initial table and side on turn and no winner; in the handler that creates
\* the session they come before its GameFound calls, and a Jump is routed to
\* a session (and so a GameUpdate or BadJump of it is sent) only after them.
C12_SnapshotOnce ==
    /\ Len(snapshots) = Len(pairings)
    /\ \A j \in 1..Len(pairings) :
          /\ Len(snapshots[j]) = 2
          /\ snapshots[j][1].to = pairings[j].light.player_id
          /\ snapshots[j][2].to = pairings[j].dark.player_id
          /\ snapshots[j][1].msg = snapshots[j][2].msg
          /\ snapshots[j][1].msg =
                [type |-> "GameState", table |-> CheckersGame_new.table,
                 team_on_turn |-> CheckersGame_new.team_on_turn,
                 winner |-> None]
    /\ \A i \in 1..Len(sent), k \in 1..Len(sent) :
          (sent[i].msg.type = "GameState" /\ sent[k].msg.type # "GameState")
            => i < k

\* ------------------------------------------------------------- C19 --
\* C19: a Jump that is routed to a session is routed to the session whose
\* game_id was in the last GameFound delivered to its player; while
\* GameMaster runs, the entry of a player in players_in_games is the game_id
\* the player was told last, so a player paired again is routed to the newer
\* session only.
C19_JumpGoesToAnnouncedSession ==
    /\ LastWasJump => last.game_id = announced[last.player_id]
    /\ status = "running" =>
          \A p \in DOMAIN players_in_games :
              announced[p] = Some(players_in_games[p])

\* Player 1, paired in session 0 and then again in session 1 with another
\* player, had a move accepted in session 1.
C19_Witness ==
    /\ LastWasJump /\ last.called
    /\ Unwrap(last.ans).kind = "Good"
    /\ last.player_id = 1
    /\ DOMAIN games = {0, 1}
    /\ 1 \in Participants(games[0])
    /\ Participants(games[1]) = {1, 2}
    /\ last.game_id = Some(1)
    /\ games[0].game.table = 0
    /\ games[1].game.table = 1

C13_Inv ==
    /\ \A i \in 1..Len(mailbox) :
          mailbox[i].seq = nsubmitted - Len(mailbox) + i
    /\ IsSome(handled) =>
          /\ Unwrap(handled).seq = nsubmitted - Len(mailbox)
          /\ last.kind = Unwrap(handled).kind
          /\ last.player_id = Unwrap(handled).player_id
          /\ last.from = Unwrap(handled).from
          /\ last.to = Unwrap(handled).to
    /\ Len(pairings) = nmatchups \div 2
    /\ IsSome(enqueued) <=> nmatchups % 2 = 1
    /\ (last.kind = "Matchup" /\ last.paired) =>
          {pairings[Len(pairings)].light.arrival,
           pairings[Len(pairings)].dark.arrival}
            = {nmatchups - 1, nmatchups}
    /\ LastWasJump =>
          /\ last.called <=>
                /\ IsSome(team(PreGame, last.player_id))
                /\ Unwrap(team(PreGame, last.player_id))
                     = PreGame.game.team_on_turn
          /\ last.called =>
                PostGame.game
                  = CheckersGame_jump(PreGame.game, Unwrap(last.ans))
          /\ ~last.called => PostGame = PreGame

C13_Step ==
    /\ nsubmitted' # nsubmitted =>
          /\ mailbox' = Append(mailbox, mailbox'[Len(mailbox')])
          /\ UNCHANGED <<enqueued, last_match_id, games, players_in_games,
                         pairings, nmatchups, sent, last, handled>>
    /\ handled' # handled =>
          /\ mailbox # <<>>
          /\ handled' = Some(Head(mailbox))
          /\ mailbox' = Tail(mailbox)
          /\ (last'.kind = "Jump" /\ IsSome(last'.pre)) =>
                Unwrap(last'.pre) = games[Unwrap(last'.game_id)]

C13_Serialized == []C13_Inv /\ [][C13_Step]_vars

\* In a session of two players the two Jumps of light and dark waited in the
\* mailbox together while light was on turn: light's was handled first and
\* accepted, then dark's was handled, passed the turn check and was accepted
\* too.
C13_Witness ==
    /\ IsSome(handled)
    /\ Unwrap(handled).kind = "Jump"
    /\ Unwrap(handled).seq = 4
    /\ Unwrap(handled).ahead = 1
    /\ nmatchups = 2
    /\ LastWasJump /\ last.called
    /\ PreGame.dark_player.id = last.player_id
    /\ PreGame.light_player.id # last.player_id
    /\ PreGame.game.table = 1
    /\ PostGame.game.table = 2
    /\ status = "running"
====
